---- MODULE Spec2Model ----
(***************************************************************************)
(* Voxa-Captions transcription pipeline.                                   *)
(*                                                                         *)
(*   Spec       the batch worker TranscriptionThread.run driving           *)
(*              TranscriptionEngine.__init__ / transcribe_audio over a     *)
(*              small file system (temporary WAV, raw engine output,      *)
(*              debug artifact, caption files).                            *)
(*   EngineSpec the same worker on a batch of one file, in each of the     *)
(*              runtimes TranscriptionEngine.__init__ distinguishes.       *)
(*   ParseSpec  the caption extraction of _parse_whisper_output applied    *)
(*              to engine transcripts built from bounded sets.             *)
(*   SplitSpec  the same extraction on one text segment, over a range of   *)
(*              offsets and word counts.                                   *)
(*   ConcSpec   two calls of transcribe_audio interleaved over one         *)
(*              temporary directory.                                       *)
(*   DecodeSpec the decoding ladder of _parse_whisper_output over the raw   *)
(*              output's bytes, followed by json.loads.                    *)
(*   AppSpec    the main window (browse, generate, the finished handler)   *)
(*              starting the batch worker on selections of one file.       *)
(***************************************************************************)
EXTENDS Integers, Sequences, FiniteSets, TLC

\* ------------------------------------------------------------------ bounds
\* the number of files of a batch
MaxFiles == 2
\* the number of segments, tokens and words of a transcript
MaxItems == 4
\* the largest offset, in milliseconds, of a segment of SplitSpec
MaxMs == 6
\* the length of the raw output of DecodeSpec, in byte units
MaxBytes == 3
\* the number of batches the window starts in AppSpec
MaxBatches == 2

\* --------------------------------------------------------- program constants
\* confidence values are kept in hundredths: 95 stands for 0.95
DefaultConfidence == 95

\* ---------------------------------------------------------------- strings
\* A Python str is a sequence of characters; " " is the whitespace character.
Chars == {"[", "_", "]", " ", "a"}

IsSpace(c) == c = " "

StartsWith(s, p) == Len(s) >= Len(p) /\ SubSeq(s, 1, Len(p)) = p

EndsWith(s, p) == Len(s) >= Len(p) /\ SubSeq(s, Len(s) - Len(p) + 1, Len(s)) = p

RECURSIVE LStrip(_)
LStrip(s) == IF s # <<>> /\ IsSpace(Head(s)) THEN LStrip(Tail(s)) ELSE s

RECURSIVE RStrip(_)
RStrip(s) ==
    IF s # <<>> /\ IsSpace(s[Len(s)]) THEN RStrip(SubSeq(s, 1, Len(s) - 1)) ELSE s

Strip(s) == RStrip(LStrip(s))

\* str.split(): the maximal runs of non-whitespace characters, in order
RECURSIVE SplitFrom(_, _, _)
SplitFrom(s, cur, acc) ==
    IF s = <<>> THEN (IF cur = <<>> THEN acc ELSE Append(acc, cur))
    ELSE IF IsSpace(Head(s))
         THEN SplitFrom(Tail(s), <<>>, IF cur = <<>> THEN acc ELSE Append(acc, cur))
         ELSE SplitFrom(Tail(s), Append(cur, Head(s)), acc)

Split(s) == SplitFrom(s, <<>>, <<>>)

\* ------------------------------------------------------------ JSON objects
\* A decoded JSON object is a function from its keys; dict.get(k, default):
Get(obj, k, default) == IF k \in DOMAIN obj THEN obj[k] ELSE default

EmptyObj == [k \in {} |-> 0]

\* int(x): truncation toward zero of the quotient a / b, b > 0
TruncDiv(a, b) == IF a >= 0 THEN a \div b ELSE -((-a) \div b)

Max(a, b) == IF a >= b THEN a ELSE b

\* -------------------------------------------------------- caption extraction
\* a test that takes every text beginning with "[_" for a control token
IsSkippedTokenByPrefix(token_text) ==
    \/ StartsWith(token_text, <<"[", "_">>)
    \/ Strip(token_text) = <<>>

\* the test of line 245: a control token "[_...]" or a blank text is skipped
IsSkippedToken(token_text) ==
    \/ StartsWith(token_text, <<"[", "_">>) /\ EndsWith(token_text, <<"]">>)
    \/ Strip(token_text) = <<>>

TokenCaption(token_data) ==
    LET offsets  == Get(token_data, "offsets", EmptyObj)
        start_ms == Get(offsets, "from", 0)
        end_ms   == Get(offsets, "to", 0)
    IN  [text |-> Get(token_data, "text", <<>>),
         startMs |-> start_ms,
         endMs |-> end_ms,
         timestampMs |-> start_ms,
         confidence |-> Get(token_data, "p", DefaultConfidence)]

RECURSIVE TokenCaptions(_)
TokenCaptions(tokens) ==
    IF tokens = <<>> THEN <<>>
    ELSE IF IsSkippedToken(Get(Head(tokens), "text", <<>>))
         THEN TokenCaptions(Tail(tokens))
         ELSE <<TokenCaption(Head(tokens))>> \o TokenCaptions(Tail(tokens))

\* a word caption stamped with the end of the word instead of its start
WordCaptionStampedAtEnd(word_data) ==
    LET start == Get(word_data, "start", Get(word_data, "t0", 0))
        end   == Get(word_data, "end", Get(word_data, "t1", 0))
    IN  [text |-> Get(word_data, "word", Get(word_data, "text", <<>>)),
         startMs |-> TruncDiv(start, 2),
         endMs |-> TruncDiv(end, 2),
         timestampMs |-> TruncDiv(end, 2),
         confidence |-> Get(word_data, "confidence",
                            Get(word_data, "p", DefaultConfidence))]

\* word entries give seconds; a value v stands for v half-milliseconds, so
\* int(seconds * 1000) is v / 2 truncated toward zero
WordCaption(word_data) ==
    LET start == Get(word_data, "start", Get(word_data, "t0", 0))
        end   == Get(word_data, "end", Get(word_data, "t1", 0))
    IN  [text |-> Get(word_data, "word", Get(word_data, "text", <<>>)),
         startMs |-> TruncDiv(start, 2),
         endMs |-> TruncDiv(end, 2),
         timestampMs |-> TruncDiv(start, 2),
         confidence |-> Get(word_data, "confidence",
                            Get(word_data, "p", DefaultConfidence))]

WordCaptions(words) == [i \in 1..Len(words) |-> WordCaption(words[i])]

\* a split whose per-word duration is rounded up instead of truncated
SplitCaptionsRoundUp(segment) ==
    LET text == Strip(segment["text"])
        words == Split(text)
        offsets == Get(segment, "offsets", EmptyObj)
        start_ms == Get(offsets, "from", 0)
        end_ms == Get(offsets, "to", 0)
        n == Max(Len(words), 1)
        WordStart(i) == start_ms + TruncDiv(i * (end_ms - start_ms), n)
    IN  IF text = <<>> THEN <<>>
        ELSE [k \in 1..Len(words) |->
                [text |-> words[k],
                 startMs |-> WordStart(k - 1),
                 endMs |-> WordStart(k - 1) + TruncDiv(end_ms - start_ms + n - 1, n),
                 timestampMs |-> WordStart(k - 1),
                 confidence |-> DefaultConfidence]]

\* the fallback of lines 275-299: the segment's duration is spread evenly
SplitCaptions(segment) ==
    LET text == Strip(segment["text"])
        words == Split(text)
        offsets == Get(segment, "offsets", EmptyObj)
        start_ms == Get(offsets, "from", 0)
        end_ms == Get(offsets, "to", 0)
        n == Max(Len(words), 1)
        WordStart(i) == start_ms + TruncDiv(i * (end_ms - start_ms), n)
    IN  IF text = <<>> THEN <<>>
        ELSE [k \in 1..Len(words) |->
                [text |-> words[k],
                 startMs |-> WordStart(k - 1),
                 endMs |-> WordStart(k - 1) + TruncDiv(end_ms - start_ms, n),
                 timestampMs |-> WordStart(k - 1),
                 confidence |-> DefaultConfidence]]

\* a selection that prefers the word entries to the token entries
SegmentCaptionsWordsFirst(segment) ==
    IF "words" \in DOMAIN segment THEN WordCaptions(segment["words"])
    ELSE IF "tokens" \in DOMAIN segment THEN TokenCaptions(segment["tokens"])
    ELSE IF "text" \in DOMAIN segment THEN SplitCaptions(segment)
    ELSE <<>>

\* one iteration of the loop of line 239: the tier is chosen by the keys
SegmentCaptions(segment) ==
    IF "tokens" \in DOMAIN segment THEN TokenCaptions(segment["tokens"])
    ELSE IF "words" \in DOMAIN segment THEN WordCaptions(segment["words"])
    ELSE IF "text" \in DOMAIN segment THEN SplitCaptions(segment)
    ELSE <<>>

RECURSIVE AllSegmentCaptions(_)
AllSegmentCaptions(segments) ==
    IF segments = <<>> THEN <<>>
    ELSE SegmentCaptions(Head(segments)) \o AllSegmentCaptions(Tail(segments))

\* lines 231-299: the captions extracted from the decoded structure
ExtractCaptions(whisper_data) ==
    IF "transcription" \in DOMAIN whisper_data
    THEN AllSegmentCaptions(whisper_data["transcription"])
    ELSE <<>>

\* ---------------------------------------------------- _parse_whisper_output
\* the content of a raw output file <wav>.json; NoFile: the file does not exist
NoFile == [json |-> "absent", data |-> EmptyObj]

NoError == "none"

\* The result of _parse_whisper_output on an existing raw output `raw`:
\* debug_ok says whether the debug artifact could be written (lines 304-305).
ParseResult(raw, debug_ok) ==
    LET captions == ExtractCaptions(raw.data)
    IN  IF raw.json = "invalid"
        THEN [error |-> "json_invalid", captions |-> <<>>, keys |-> {},
              debug |-> FALSE]
        ELSE IF Len(captions) = 0
        THEN IF debug_ok
             THEN [error |-> "no_captions", captions |-> <<>>,
                   keys |-> DOMAIN raw.data, debug |-> TRUE]
             ELSE [error |-> "processing_error", captions |-> <<>>,
                   keys |-> {}, debug |-> FALSE]
        ELSE [error |-> NoError, captions |-> captions, keys |-> {},
              debug |-> FALSE]

NoResult == [error |-> NoError, captions |-> <<>>, keys |-> {}, debug |-> FALSE]

\* whether line 317 is reached for this result: os.remove(json_path)
ParseReachesCleanup(res) == res.error = NoError

\* ------------------------------------------------------------- the batch
\* an audio path: directory, stem and extension of the file
AudioFileList ==
    << [dir |-> "d1", stem |-> "a", ext |-> "mp3"],
       [dir |-> "d1", stem |-> "a", ext |-> "wav"],
       [dir |-> "d2", stem |-> "b", ext |-> "mp3"] >>

Stems == {AudioFileList[i].stem : i \in 1..Len(AudioFileList)}

\* os.path.basename(audio_path)
Basename(audio_path) == [stem |-> audio_path.stem, ext |-> audio_path.ext]

NoName == [stem |-> "", ext |-> ""]

\* Path(audio_path).with_suffix('.json')
OutputPath(audio_path) == [dir |-> audio_path.dir, stem |-> audio_path.stem]

OutputPaths == {OutputPath(AudioFileList[i]) : i \in 1..Len(AudioFileList)}

\* tempfile.gettempdir() / f"{stem}_16khz.wav": the name is fixed by the stem
WavPath(audio_path) == audio_path.stem

\* the selections of files a batch can be given, in the order of the list
RECURSIVE SubSeqs(_)
SubSeqs(s) ==
    IF s = <<>> THEN {<<>>}
    ELSE LET rest == SubSeqs(Tail(s))
         IN  rest \cup {<<Head(s)>> \o r : r \in rest}

Batches == {s \in SubSeqs(AudioFileList) : Len(s) \in 1..MaxFiles}

\* what the engine can write as its raw output
TokA == [text |-> <<"a">>, offsets |-> [from |-> 0, to |-> 1], p |-> 90]
TokBeg == [text |-> <<"[", "_", "]">>, offsets |-> [from |-> 0, to |-> 0]]

RawInvalid == [json |-> "invalid", data |-> EmptyObj]
RawNoKey == [json |-> "object", data |-> [result |-> <<>>]]
RawGood ==
    [json |-> "object",
     data |-> [result |-> <<>>,
               transcription |-> << [tokens |-> <<TokBeg, TokA>>] >>]]

EngineOutputs == {RawInvalid, RawNoKey, RawGood}

VARIABLES
    audio_paths,       \* self.audio_paths
    sys_attrs,         \* which of sys.frozen and sys._MEIPASS are set
    model_exists,      \* whether models/ggml-<model>.bin exists
    exe_exists,        \* the paths at which a main.exe exists
    pc,                \* position of the worker in run
    idx,               \* the loop index of line 44
    whisper_exe,       \* self.engine.whisper_exe
    successful_files, failed_files,
    captions,          \* the captions transcribe_audio returned
    error,             \* the message of the exception in flight
    events,            \* every signal emitted, in order
    finished,          \* the arguments of each finished signal
    tmp_wav,           \* the temporary WAV files that exist
    raw_json,          \* the raw output files <wav>.json
    debug_json,        \* the debug artifacts that exist
    out_file,          \* the caption files next to the inputs
    trace,             \* history: the external steps taken, in order
    p_data, p_result, p_phase,  \* ParseSpec: transcript, result, phase
    jobs,              \* ConcSpec: the transcribe_audio calls in flight
    dec,               \* DecodeSpec: the decoding of the raw output's bytes
    gui                \* AppSpec: the main window's controls and its worker

batchVars == <<audio_paths, sys_attrs, model_exists, exe_exists, pc, idx, whisper_exe,
               successful_files, failed_files, captions, error, events,
               finished, tmp_wav, raw_json, debug_json, out_file, trace>>
parseVars == <<p_data, p_result, p_phase>>
vars == <<batchVars, parseVars, jobs, dec, gui>>

\* the decoding and the window where they take no part
NoDecode == [pc |-> "off"]
NoWindow == [pc |-> "off"]

N == Len(audio_paths)
Cur == audio_paths[idx]

Ev(kind, i, file, msg) == [kind |-> kind, idx |-> i, file |-> file, msg |-> msg]
Step(kind, i, res) == [kind |-> kind, idx |-> i, res |-> res]

Emit(evs) == events' = events \o evs

\* --------------------------------------------------------------- actions
\* A path is the sequence of its components. The program runs as a script,
\* as a bundle without sys._MEIPASS, or as a bundle with it (the bootloader
\* that sets sys._MEIPASS also sets sys.frozen).
Runtimes == {{}, {"frozen"}, {"frozen", "_MEIPASS"}}

Frozen == "frozen" \in sys_attrs
HasMeipass == "_MEIPASS" \in sys_attrs

Parent(path) == SubSeq(path, 1, Len(path) - 1)

\* sys._MEIPASS, Path(sys.executable).parent and Path(__file__).parent
MeipassDir == <<"MEIPASS">>
ExeDir == <<"exe_dir">>
ScriptDir == <<"script_dir">>

\* __init__, lines 32-43
BaseDir ==
    IF Frozen
    THEN IF HasMeipass THEN MeipassDir ELSE ExeDir \o <<"_internal">>
    ELSE ScriptDir

\* line 45
ModelsDir == BaseDir \o <<"models">>

\* the three locations of _find_whisper_executable
InModelsDir == ModelsDir \o <<"main.exe">>
InWhisperCpp == ModelsDir \o <<"whisper.cpp", "main.exe">>
Bundled == MeipassDir \o <<"models", "main.exe">>

\* the paths _find_whisper_executable can look at in this runtime
ExePaths == {InModelsDir, InWhisperCpp} \cup (IF HasMeipass THEN {Bundled} ELSE {})

\* None
NoPath == <<>>

\* a discovery that looks into the whisper.cpp subdirectory first
FindWhisperExecutableSubdirFirst ==
    IF InWhisperCpp \in exe_exists THEN InWhisperCpp
    ELSE IF InModelsDir \in exe_exists THEN InModelsDir
    ELSE IF HasMeipass /\ Bundled \in exe_exists THEN Bundled
    ELSE NoPath

\* _find_whisper_executable: the first candidate that exists, or None
FindWhisperExecutable ==
    IF InModelsDir \in exe_exists THEN InModelsDir
    ELSE IF InWhisperCpp \in exe_exists THEN InWhisperCpp
    ELSE IF HasMeipass /\ Bundled \in exe_exists THEN Bundled
    ELSE NoPath

\* the cwd argument of the engine's subprocess.run, line 167
EngineCwd == ModelsDir

\* a construction that does not look for the model file
EngineInitErrorWithoutModelCheck ==
    IF FindWhisperExecutable = NoPath THEN "exe_not_found"
    ELSE NoError

\* TranscriptionEngine.__init__: the error it raises, if any
EngineInitError ==
    IF ~model_exists THEN "model_not_found"
    ELSE IF FindWhisperExecutable = NoPath THEN "exe_not_found"
    ELSE NoError

\* a construction failure that is reported without the finished signal
EngineInitWithoutFinished ==
    /\ pc = "start"
    /\ IF EngineInitError = NoError
       THEN /\ whisper_exe' = FindWhisperExecutable
            /\ Emit(<<Ev("initializing", 0, NoName, "")>>)
            /\ pc' = "loop"
       ELSE /\ Emit(<<Ev("initializing", 0, NoName, ""),
                      Ev("batch_error", 0, NoName, EngineInitError)>>)
            /\ pc' = "done"
            /\ UNCHANGED whisper_exe
    /\ UNCHANGED <<audio_paths, sys_attrs, model_exists, exe_exists, idx, successful_files,
                   failed_files, captions, error, finished, tmp_wav, raw_json,
                   debug_json, out_file, trace, parseVars, jobs, dec, gui>>

\* run, lines 41-42, and the handler of lines 96-99 when construction raises
EngineInit ==
    /\ pc = "start"
    /\ IF EngineInitError = NoError
       THEN /\ whisper_exe' = FindWhisperExecutable
            /\ Emit(<<Ev("initializing", 0, NoName, "")>>)
            /\ pc' = "loop"
            /\ UNCHANGED finished
       ELSE /\ Emit(<<Ev("initializing", 0, NoName, ""),
                      Ev("batch_error", 0, NoName, EngineInitError),
                      Ev("finished", 0, NoName, "")>>)
            /\ finished' = Append(finished, [ok |-> FALSE, summary |-> EngineInitError])
            /\ pc' = "done"
            /\ UNCHANGED whisper_exe
    /\ UNCHANGED <<audio_paths, sys_attrs, model_exists, exe_exists, idx, successful_files,
                   failed_files, captions, error, tmp_wav, raw_json, debug_json,
                   out_file, trace, parseVars, jobs, dec, gui>>

\* a loop that takes the next request while the failure of the current
\* one is still waiting to be recorded
NextFileBeforeOutcomeRecorded ==
    /\ pc \in {"loop", "except"}
    /\ idx < N
    /\ idx' = idx + 1
    /\ Emit(<<Ev("separator", 0, NoName, ""),
              Ev("processing", idx + 1, NoName, ""),
              Ev("file", idx + 1, Basename(audio_paths[idx + 1]), ""),
              Ev("separator", 0, NoName, ""),
              Ev("loading", idx + 1, NoName, ""),
              Ev("transcribing", idx + 1, NoName, "")>>)
    /\ pc' = "convert"
    /\ UNCHANGED <<audio_paths, sys_attrs, model_exists, exe_exists, whisper_exe,
                   successful_files, failed_files, captions, error, finished,
                   tmp_wav, raw_json, debug_json, out_file, trace, parseVars, jobs, dec, gui>>

\* lines 44-53: the next request is taken and its start events are emitted
NextFile ==
    /\ pc = "loop"
    /\ idx < N
    /\ idx' = idx + 1
    /\ Emit(<<Ev("separator", 0, NoName, ""),
              Ev("processing", idx + 1, NoName, ""),
              Ev("file", idx + 1, Basename(audio_paths[idx + 1]), ""),
              Ev("separator", 0, NoName, ""),
              Ev("loading", idx + 1, NoName, ""),
              Ev("transcribing", idx + 1, NoName, "")>>)
    /\ pc' = "convert"
    /\ UNCHANGED <<audio_paths, sys_attrs, model_exists, exe_exists, whisper_exe,
                   successful_files, failed_files, captions, error, finished,
                   tmp_wav, raw_json, debug_json, out_file, trace, parseVars, jobs, dec, gui>>

\* a handler that gives up on the batch instead of going on with the loop
AfterErrorAbort == "done"

\* what leaves the except clause of lines 68-71
AfterError == "loop"

\* _convert_audio_to_wav (line 148): ffmpeg runs outside the try of line 150
ConvertOutcomes == {"ok", "nonzero", "nonzero_wrote", "not_found"}

ConvertAudio ==
    /\ pc = "convert"
    /\ \E o \in ConvertOutcomes :
        /\ trace' = Append(trace, Step("ffmpeg", idx, o))
        /\ tmp_wav' = IF o \in {"ok", "nonzero_wrote"}
                      THEN tmp_wav \cup {WavPath(Cur)} ELSE tmp_wav
        /\ IF o = "ok"
           THEN pc' = "whisper" /\ UNCHANGED error
           ELSE /\ pc' = "except"
                /\ error' = IF o = "not_found" THEN "ffmpeg_not_found"
                            ELSE "ffmpeg_failed"
    /\ UNCHANGED <<audio_paths, sys_attrs, model_exists, exe_exists, idx, whisper_exe,
                   successful_files, failed_files, captions, events, finished,
                   raw_json, debug_json, out_file, parseVars, jobs, dec, gui>>

\* an engine run whose exit status is not looked at
RunWhisperIgnoringExit ==
    /\ pc = "whisper"
    /\ \/ /\ trace' = Append(trace, Step("whisper", idx, "nonzero"))
          /\ pc' = "parse"
          /\ UNCHANGED <<raw_json, error>>
       \/ /\ trace' = Append(trace, Step("whisper", idx, "no_output"))
          /\ pc' = "parse"
          /\ UNCHANGED <<raw_json, error>>
       \/ \E raw \in EngineOutputs :
          /\ trace' = Append(trace, Step("whisper", idx, "output"))
          /\ raw_json' = [raw_json EXCEPT ![WavPath(Cur)] = raw]
          /\ pc' = "parse"
          /\ UNCHANGED error
    /\ UNCHANGED <<audio_paths, sys_attrs, model_exists, exe_exists, idx, whisper_exe,
                   successful_files, failed_files, captions, events, finished,
                   tmp_wav, debug_json, out_file, parseVars, jobs, dec, gui>>

\* lines 152-180: the engine runs; on exit 0 it has written <wav>.json or not
RunWhisper ==
    /\ pc = "whisper"
    /\ \/ /\ trace' = Append(trace, Step("whisper", idx, "nonzero"))
          /\ error' = "whisper_failed"
          /\ pc' = "finally"
          /\ UNCHANGED raw_json
       \/ /\ trace' = Append(trace, Step("whisper", idx, "no_output"))
          /\ pc' = "parse"
          /\ UNCHANGED <<raw_json, error>>
       \/ \E raw \in EngineOutputs :
          /\ trace' = Append(trace, Step("whisper", idx, "output"))
          /\ raw_json' = [raw_json EXCEPT ![WavPath(Cur)] = raw]
          /\ pc' = "parse"
          /\ UNCHANGED error
    /\ UNCHANGED <<audio_paths, sys_attrs, model_exists, exe_exists, idx, whisper_exe,
                   successful_files, failed_files, captions, events, finished,
                   tmp_wav, debug_json, out_file, parseVars, jobs, dec, gui>>

\* _parse_whisper_output (line 183) on the raw output of the current WAV
ParseOutput ==
    /\ pc = "parse"
    /\ pc' = "finally"
    /\ IF raw_json[WavPath(Cur)] = NoFile
       THEN /\ error' = "json_not_found"
            /\ trace' = Append(trace, Step("parse", idx, "json_not_found"))
            /\ UNCHANGED <<captions, raw_json, debug_json>>
       ELSE \E debug_ok \in BOOLEAN, remove_ok \in BOOLEAN :
            LET res == ParseResult(raw_json[WavPath(Cur)], debug_ok)
            IN  /\ (Len(ExtractCaptions(raw_json[WavPath(Cur)].data)) > 0
                    \/ raw_json[WavPath(Cur)].json = "invalid") => debug_ok
                /\ ~ParseReachesCleanup(res) => remove_ok
                /\ error' = res.error
                /\ captions' = res.captions
                /\ debug_json' = IF res.debug THEN debug_json \cup {WavPath(Cur)}
                                 ELSE debug_json
                /\ raw_json' = IF ParseReachesCleanup(res) /\ remove_ok
                               THEN [raw_json EXCEPT ![WavPath(Cur)] = NoFile]
                               ELSE raw_json
                /\ trace' = trace \o <<Step("parse", idx, res.error)>>
                             \o (IF ParseReachesCleanup(res)
                                 THEN <<Step("rm_json", idx,
                                             IF remove_ok THEN "ok" ELSE "failed")>>
                                 ELSE <<>>)
    /\ UNCHANGED <<audio_paths, sys_attrs, model_exists, exe_exists, idx, whisper_exe,
                   successful_files, failed_files, events, finished, tmp_wav,
                   out_file, parseVars, jobs, dec, gui>>

\* a cleanup that runs on the success path only, as without the finally
CleanupWavOnSuccessOnly ==
    /\ pc = "finally"
    /\ \E remove_ok \in BOOLEAN :
        /\ (WavPath(Cur) \notin tmp_wav \/ error # NoError) => remove_ok
        /\ tmp_wav' = IF remove_ok /\ error = NoError
                      THEN tmp_wav \ {WavPath(Cur)} ELSE tmp_wav
        /\ trace' = Append(trace, Step("rm_wav", idx,
                                       IF remove_ok THEN "ok" ELSE "failed"))
    /\ pc' = IF error = NoError THEN "save" ELSE "except"
    /\ UNCHANGED <<audio_paths, sys_attrs, model_exists, exe_exists, idx, whisper_exe,
                   successful_files, failed_files, captions, error, events,
                   finished, raw_json, debug_json, out_file, parseVars, jobs, dec, gui>>

\* the finally clause of lines 187-193: best-effort removal of the WAV
CleanupWav ==
    /\ pc = "finally"
    /\ \E remove_ok \in BOOLEAN :
        /\ (WavPath(Cur) \notin tmp_wav) => remove_ok
        /\ tmp_wav' = IF remove_ok THEN tmp_wav \ {WavPath(Cur)} ELSE tmp_wav
        /\ trace' = Append(trace, Step("rm_wav", idx,
                                       IF remove_ok THEN "ok" ELSE "failed"))
    /\ pc' = IF error = NoError THEN "save" ELSE "except"
    /\ UNCHANGED <<audio_paths, sys_attrs, model_exists, exe_exists, idx, whisper_exe,
                   successful_files, failed_files, captions, error, events,
                   finished, raw_json, debug_json, out_file, parseVars, jobs, dec, gui>>

\* lines 57-60: the caption file is opened for writing, which truncates it
SaveOpen ==
    /\ pc = "save"
    /\ Emit(<<Ev("saving", idx, Basename(Cur), "")>>)
    /\ \E open_ok \in BOOLEAN :
        /\ trace' = Append(trace, Step("open", idx, IF open_ok THEN "ok" ELSE "failed"))
        /\ IF open_ok
           THEN /\ out_file' = [out_file EXCEPT ![OutputPath(Cur)] = "partial"]
                /\ pc' = "dump"
                /\ UNCHANGED error
           ELSE /\ error' = "open_failed"
                /\ pc' = "except"
                /\ UNCHANGED out_file
    /\ UNCHANGED <<audio_paths, sys_attrs, model_exists, exe_exists, idx, whisper_exe,
                   successful_files, failed_files, captions, finished, tmp_wav,
                   raw_json, debug_json, parseVars, jobs, dec, gui>>

\* a save step that signals the completion before the captions are written
SaveDumpSignalsFirst ==
    /\ pc = "dump"
    /\ \E dump_ok \in BOOLEAN :
        /\ trace' = Append(trace, Step("dump", idx, IF dump_ok THEN "ok" ELSE "failed"))
        /\ Emit(<<Ev("generated", idx, NoName, ""),
                  Ev("saved", idx, Basename(Cur), ""),
                  Ev("file_completed", idx, Basename(Cur), "")>>)
        /\ IF dump_ok
           THEN /\ out_file' = [out_file EXCEPT ![OutputPath(Cur)] = "full"]
                /\ successful_files' = Append(successful_files, Basename(Cur))
                /\ pc' = "loop"
                /\ UNCHANGED error
           ELSE /\ error' = "dump_failed"
                /\ pc' = "except"
                /\ UNCHANGED <<out_file, successful_files>>
    /\ UNCHANGED <<audio_paths, sys_attrs, model_exists, exe_exists, idx, whisper_exe,
                   failed_files, captions, finished, tmp_wav, raw_json,
                   debug_json, parseVars, jobs, dec, gui>>

\* lines 61-66: json.dump writes the captions piece by piece, then the
\* success is recorded
SaveDump ==
    /\ pc = "dump"
    /\ \E dump_ok \in BOOLEAN :
        /\ trace' = Append(trace, Step("dump", idx, IF dump_ok THEN "ok" ELSE "failed"))
        /\ IF dump_ok
           THEN /\ out_file' = [out_file EXCEPT ![OutputPath(Cur)] = "full"]
                /\ Emit(<<Ev("generated", idx, NoName, ""),
                          Ev("saved", idx, Basename(Cur), ""),
                          Ev("file_completed", idx, Basename(Cur), "")>>)
                /\ successful_files' = Append(successful_files, Basename(Cur))
                /\ pc' = "loop"
                /\ UNCHANGED error
           ELSE /\ error' = "dump_failed"
                /\ pc' = "except"
                /\ UNCHANGED <<out_file, events, successful_files>>
    /\ UNCHANGED <<audio_paths, sys_attrs, model_exists, exe_exists, idx, whisper_exe,
                   failed_files, captions, finished, tmp_wav, raw_json,
                   debug_json, parseVars, jobs, dec, gui>>

\* a handler that reports the error but forgets to record the file
HandleErrorUnrecorded ==
    /\ pc = "except"
    /\ Emit(<<Ev("error", idx, Basename(Cur), error)>>)
    /\ error' = NoError
    /\ pc' = AfterError
    /\ UNCHANGED <<audio_paths, sys_attrs, model_exists, exe_exists, idx, whisper_exe,
                   successful_files, failed_files, captions, finished, tmp_wav,
                   raw_json, debug_json, out_file, trace, parseVars, jobs, dec, gui>>

\* a handler that puts the failed file at the head of the failure list
HandleErrorPrepending ==
    /\ pc = "except"
    /\ Emit(<<Ev("error", idx, Basename(Cur), error)>>)
    /\ failed_files' = <<Basename(Cur)>> \o failed_files
    /\ error' = NoError
    /\ pc' = AfterError
    /\ UNCHANGED <<audio_paths, sys_attrs, model_exists, exe_exists, idx, whisper_exe,
                   successful_files, captions, finished, tmp_wav, raw_json,
                   debug_json, out_file, trace, parseVars, jobs, dec, gui>>

\* lines 68-71: the except clause of the loop body
HandleError ==
    /\ pc = "except"
    /\ Emit(<<Ev("error", idx, Basename(Cur), error)>>)
    /\ failed_files' = Append(failed_files, Basename(Cur))
    /\ error' = NoError
    /\ pc' = AfterError
    /\ UNCHANGED <<audio_paths, sys_attrs, model_exists, exe_exists, idx, whisper_exe,
                   successful_files, captions, finished, tmp_wav, raw_json,
                   debug_json, out_file, trace, parseVars, jobs, dec, gui>>

\* lines 82-90: a header and one line per name, if there is any name
ListEvents(header, kind, names) ==
    IF names = <<>> THEN <<>>
    ELSE <<Ev(header, 0, NoName, "")>>
         \o [i \in 1..Len(names) |-> Ev(kind, 0, names[i], "")]

\* a success flag taken from the wrong list
SuccessFromSuccesses == Len(successful_files) > 0

\* line 92
Success == Len(failed_files) = 0

\* lines 73-94: the summary and the finished signal
Summary ==
    /\ pc = "loop"
    /\ idx >= N
    /\ Emit(<<Ev("blank", 0, NoName, ""),
              Ev("separator", 0, NoName, ""),
              Ev("batch_completed", 0, NoName, ""),
              Ev("separator", 0, NoName, ""),
              Ev("summary", N, NoName, ""),
              Ev("summary_successful", Len(successful_files), NoName, ""),
              Ev("summary_failed", Len(failed_files), NoName, "")>>
            \o ListEvents("succeeded_header", "succeeded", successful_files)
            \o ListEvents("failed_header", "failed", failed_files)
            \o <<Ev("finished", 0, NoName, "")>>)
    /\ finished' = Append(finished, [ok |-> Success,
                                     summary |-> "processed"])
    /\ pc' = "done"
    /\ UNCHANGED <<audio_paths, sys_attrs, model_exists, exe_exists, idx, whisper_exe,
                   successful_files, failed_files, captions, error, tmp_wav,
                   raw_json, debug_json, out_file, trace, parseVars, jobs, dec, gui>>

\* the worker before run: nothing processed, nothing on disk
Fresh ==
    /\ pc = "start"
    /\ idx = 0
    /\ whisper_exe = NoPath
    /\ successful_files = <<>>
    /\ failed_files = <<>>
    /\ captions = <<>>
    /\ error = NoError
    /\ events = <<>>
    /\ finished = <<>>
    /\ tmp_wav = {}
    /\ raw_json = [s \in Stems |-> NoFile]
    /\ debug_json = {}
    /\ out_file = [p \in OutputPaths |-> "absent"]
    /\ trace = <<>>
    /\ p_data = NoFile
    /\ p_result = NoResult
    /\ p_phase = "off"
    /\ jobs = <<>>
    /\ dec = NoDecode
    /\ gui = NoWindow

\* a batch of one file in every runtime, for the claims on the engine's
\* construction
EInit ==
    /\ audio_paths \in {b \in Batches : Len(b) = 1}
    /\ sys_attrs \in Runtimes
    /\ model_exists \in BOOLEAN
    /\ exe_exists \in SUBSET ExePaths
    /\ Fresh

\* a batch run from the sources
Init ==
    /\ audio_paths \in Batches
    /\ sys_attrs = {}
    /\ model_exists \in BOOLEAN
    /\ exe_exists \in SUBSET ExePaths
    /\ Fresh

Next ==
    \/ EngineInit
    \/ NextFile
    \/ ConvertAudio
    \/ RunWhisper
    \/ ParseOutput
    \/ CleanupWav
    \/ SaveOpen
    \/ SaveDump
    \/ HandleError
    \/ Summary

Spec == Init /\ [][Next]_vars

EngineSpec == EInit /\ [][Next]_vars

\* ------------------------------------------------- reading the history
EngineConstructed == whisper_exe # NoPath

\* the number of requests that have been dealt with completely
NumCompleted == IF pc \in {"loop", "done", "start"} THEN idx ELSE idx - 1

IsFailure(st) ==
    \/ st.kind = "ffmpeg" /\ st.res # "ok"
    \/ st.kind = "whisper" /\ st.res = "nonzero"
    \/ st.kind = "parse" /\ st.res # NoError
    \/ st.kind \in {"open", "dump"} /\ st.res = "failed"

\* the message of the error a failing step raises
StepError(st) ==
    CASE st.kind = "ffmpeg" ->
            (IF st.res = "not_found" THEN "ffmpeg_not_found" ELSE "ffmpeg_failed")
      [] st.kind = "whisper" -> "whisper_failed"
      [] st.kind = "parse" -> st.res
      [] st.kind = "open" -> "open_failed"
      [] st.kind = "dump" -> "dump_failed"

\* a step of request i raised an error / request i wrote its captions
StepFailed(i) == \E k \in 1..Len(trace) : trace[k].idx = i /\ IsFailure(trace[k])
StepSucceeded(i) == \E k \in 1..Len(trace) : trace[k] = Step("dump", i, "ok")

NamesOf(ids) == [j \in 1..Len(ids) |-> Basename(audio_paths[ids[j]])]
UpTo(n) == [i \in 1..n |-> i]
FailedIds(n) == SelectSeq(UpTo(n), StepFailed)

IsProcessing(e) == e.kind = "processing"
Attempts == SelectSeq(events, IsProcessing)

\* ------------------------------------------------------------------ C1
\* C1 (as amended): in a batch whose engine was constructed every request is
\* attempted exactly once and in list order, whatever the earlier requests'
\* outcome: the attempts made so far are 1, 2, .., idx, and when the batch is
\* over all N requests have been attempted.
C1_EveryRequestAttemptedInOrder ==
    /\ \A i \in 1..Len(Attempts) : Attempts[i].idx = i
    /\ Len(Attempts) = idx
    /\ (pc = "done" /\ EngineConstructed) => Len(Attempts) = N

\* C1 as stated: whenever a batch is over, every request has been attempted.
C1_Original ==
    pc = "done" =>
        /\ Len(Attempts) = N
        /\ \A i \in 1..Len(Attempts) : Attempts[i].idx = i

\* a finished batch whose first request failed and whose second one was run
C1_Witness ==
    /\ pc = "done"
    /\ N >= 2
    /\ StepFailed(1)
    /\ Len(Attempts) = N

\* ------------------------------------------------------------------ C2
\* the requests that are made to fail, when a missing model counts as a
\* failure of every request that uses it
OneFails(k, Fails(_)) ==
    /\ Fails(k)
    /\ \A j \in (1..N) \ {k} : ~Fails(j) /\ StepSucceeded(j)

Isolated(k) ==
    /\ Len(finished) = 1
    /\ ~finished[1].ok
    /\ failed_files = <<Basename(audio_paths[k])>>
    /\ successful_files = NamesOf(SelectSeq(UpTo(N), LAMBDA j : j # k))

FailsOrNoModel(i) == StepFailed(i) \/ ~model_exists

C3_OkIffNoFailures ==
    pc = "done" =>
        /\ Len(finished) = 1
        /\ finished[1].ok <=> (EngineConstructed /\ failed_files = <<>>)
        /\ ~EngineConstructed => failed_files = <<>>

\* C3 as stated: by whichever path the batch ends, ok <=> no failures.
C3_Original ==
    pc = "done" =>
        /\ Len(finished) = 1
        /\ finished[1].ok <=> (failed_files = <<>>)

\* a batch that ran all its requests and reports failure for a failed file
C3_Witness ==
    /\ pc = "done"
    /\ EngineConstructed
    /\ failed_files # <<>>
    /\ successful_files # <<>>
    /\ ~finished[1].ok

Last(s) == s[Len(s)]

\* transcribe_audio has just left its finally clause
JustLeftTranscribe ==
    /\ pc \in {"save", "except"}
    /\ trace # <<>>
    /\ Last(trace).kind = "rm_wav"

\* the error the body of transcribe_audio raised, by its last step
BodyError ==
    LET st == trace[Len(trace) - 1]
    IN  IF IsFailure(st) THEN StepError(st) ELSE NoError

\* C5 (as amended): once the normalizer has produced the WAV, its removal is
\* attempted on every exit path of transcribe_audio; the WAV is gone when the
\* call returns or raises unless the removal itself failed, and that failure
\* is swallowed: the call still returns its captions or raises the error of
\* its body.
C5_WavRemovedBestEffort ==
    JustLeftTranscribe =>
        /\ (WavPath(Cur) \in tmp_wav) => Last(trace).res = "failed"
        /\ error = BodyError
        /\ pc = (IF BodyError = NoError THEN "save" ELSE "except")

\* C5 as stated: the WAV no longer exists on any exit path.
C5_Original == JustLeftTranscribe => WavPath(Cur) \notin tmp_wav

\* the engine exited non-zero and the WAV has been removed on the way out
C5_Witness ==
    /\ JustLeftTranscribe
    /\ trace[Len(trace) - 1] = Step("whisper", idx, "nonzero")
    /\ WavPath(Cur) \notin tmp_wav
    /\ pc = "except"

\* ------------------------------------------------------------------ C6
\* parsing of an existing raw output has just ended
JustParsed ==
    /\ pc = "finally"
    /\ trace # <<>>
    /\ \/ Last(trace).kind = "parse" /\ Last(trace).res # "json_not_found"
       \/ Last(trace).kind = "rm_json"

\* C6: after parsing of a raw output ends, with captions or with a failure,
\* the raw output file <wav>.json has been deleted (a removal that was
\* attempted and failed aside).
C6_RawOutputDeleted ==
    JustParsed =>
        \/ raw_json[WavPath(Cur)] = NoFile
        \/ Last(trace) = Step("rm_json", idx, "failed")

\* ------------------------------------------------------------------ C8
RequestKinds == {"processing", "file", "loading", "transcribing", "saving",
                 "generated", "saved", "file_completed", "error"}
SuccessKinds == {"generated", "saved", "file_completed"}
SummaryKinds == {"batch_completed", "summary", "summary_successful",
                 "summary_failed", "succeeded_header", "succeeded",
                 "failed_header", "failed", "finished"}

Rank(kind) ==
    CASE kind = "processing" -> 1
      [] kind = "file" -> 2
      [] kind = "loading" -> 3
      [] kind = "transcribing" -> 4
      [] kind = "saving" -> 5
      [] kind = "generated" -> 6
      [] kind = "saved" -> 7
      [] kind = "file_completed" -> 8
      [] kind = "error" -> 9

IsRequestEvent(e) == e.kind \in RequestKinds

HasEvent(kind, i) == \E p \in 1..Len(events) : events[p].kind = kind /\ events[p].idx = i

IsSucceededLine(e) == e.kind = "succeeded"
IsFailedLine(e) == e.kind = "failed"
FilesOf(evs) == [j \in 1..Len(evs) |-> evs[j].file]

\* C8: the events of a request come in a fixed order, the start event first,
\* and end with either the saved/file_completed events or exactly one error
\* event naming the file and carrying the error; the events of request i
\* precede those of request i+1; the summary (counts and names) comes only
\* after the events of the last request.
C8_EventOrder ==
    /\ LET req == SelectSeq(events, IsRequestEvent)
       IN  \* consecutive events suffice: both orders are transitive, and a
           \* success event can only be followed by a higher success event
           \A p \in 1..(Len(req) - 1) :
               /\ req[p].idx <= req[p + 1].idx
               /\ req[p].idx = req[p + 1].idx =>
                   /\ Rank(req[p].kind) < Rank(req[p + 1].kind)
                   /\ ~(req[p].kind \in SuccessKinds /\ req[p + 1].kind = "error")
    /\ \A p \in 1..Len(events) :
        events[p].kind \in SummaryKinds =>
            \A q \in (p + 1)..Len(events) : events[q].kind \notin RequestKinds
    /\ \A p \in 1..Len(events) :
        /\ events[p].kind \in RequestKinds => HasEvent("processing", events[p].idx)
        /\ events[p].kind = "file_completed" =>
            /\ events[p].file = Basename(audio_paths[events[p].idx])
            /\ HasEvent("saved", events[p].idx)
        /\ events[p].kind = "error" =>
            /\ events[p].file = Basename(audio_paths[events[p].idx])
            /\ events[p].msg # NoError
            /\ \E k \in 1..Len(trace) :
                /\ trace[k].idx = events[p].idx
                /\ IsFailure(trace[k])
                /\ events[p].msg = StepError(trace[k])
    /\ \A i \in 1..NumCompleted :
        HasEvent("file_completed", i) # HasEvent("error", i)
    /\ HasEvent("summary", N) =>
        /\ NumCompleted = N
        /\ HasEvent("summary_successful", Len(successful_files))
        /\ HasEvent("summary_failed", Len(failed_files))
        /\ pc = "done" =>
            /\ FilesOf(SelectSeq(events, IsSucceededLine)) = successful_files
            /\ FilesOf(SelectSeq(events, IsFailedLine)) = failed_files

\* a finished batch with a saved file followed by a file that failed to save
C8_Witness ==
    /\ pc = "done"
    /\ HasEvent("file_completed", 1)
    /\ HasEvent("saving", 2)
    /\ HasEvent("error", 2)
    /\ HasEvent("summary", 2)

\* ------------------------------------------------------------------ C9
\* C9: wherever the processing of a file can end, its caption file is fully
\* written or not written at all, never partial.
C9_OutputAllOrNothing ==
    pc \in {"loop", "done"} =>
        \A p \in OutputPaths : out_file[p] \in {"absent", "full"}

\* ----------------------------------------------------------- ParseSpec
\* The engine's transcript is built entry by entry from the sets below, then
\* _parse_whisper_output is applied to it.
Offs(from, to) == [from |-> from, to |-> to]

Tokens ==
    { [text |-> <<"a">>, offsets |-> Offs(0, 1), p |-> 90],
      [text |-> <<" ", "a">>, offsets |-> Offs(1, 2)],
      [text |-> <<"[", "_", "a", "]">>, offsets |-> Offs(0, 0), p |-> 100],
      [text |-> <<" ">>, offsets |-> Offs(1, 1)],
      [offsets |-> Offs(2, 2)],
      [text |-> <<"[", "_">>, offsets |-> [from |-> 3]] }

Words ==
    { [word |-> <<"a">>, start |-> 1, end |-> 3],
      [text |-> <<"a">>, t0 |-> 0, t1 |-> 2, p |-> 80],
      [word |-> <<>>, start |-> 2, end |-> 5, confidence |-> 70] }

SegmentShapes ==
    { [tokens |-> <<>>],
      [words |-> <<>>],
      [text |-> <<" ", "a", " ", "a">>, offsets |-> Offs(0, 3)],
      [text |-> <<" ">>, offsets |-> Offs(0, 1)],
      [tokens |-> <<>>, words |-> <<>>, text |-> <<"a">>],
      [words |-> <<>>, text |-> <<"a">>, offsets |-> Offs(1, 2)],
      EmptyObj }

RawStarts ==
    { RawInvalid,
      [json |-> "object", data |-> [result |-> <<>>]],
      [json |-> "object", data |-> [transcription |-> <<>>]],
      [json |-> "object", data |-> [result |-> <<>>, transcription |-> <<>>]] }

Segments == Get(p_data.data, "transcription", <<>>)

RECURSIVE SumLen(_, _)
SumLen(segs, key) ==
    IF segs = <<>> THEN 0
    ELSE Len(Get(Head(segs), key, <<>>)) + SumLen(Tail(segs), key)

\* the number of entries of the transcript: segments, tokens and words
Size == Len(Segments) + SumLen(Segments, "tokens") + SumLen(Segments, "words")

PCanGrow ==
    /\ p_phase = "build"
    /\ p_data.json = "object"
    /\ "transcription" \in DOMAIN p_data.data
    /\ Size < MaxItems

PAddSegment ==
    /\ PCanGrow
    /\ \E seg \in SegmentShapes :
        p_data' = [p_data EXCEPT !.data.transcription = Append(@, seg)]
    /\ UNCHANGED <<p_result, p_phase, batchVars, jobs, dec, gui>>

PAddToken ==
    /\ PCanGrow
    /\ Segments # <<>>
    /\ "tokens" \in DOMAIN Last(Segments)
    /\ \E tok \in Tokens :
        p_data' = [p_data EXCEPT
                     !.data.transcription[Len(Segments)].tokens = Append(@, tok)]
    /\ UNCHANGED <<p_result, p_phase, batchVars, jobs, dec, gui>>

PAddWord ==
    /\ PCanGrow
    /\ Segments # <<>>
    /\ "words" \in DOMAIN Last(Segments)
    /\ \E w \in Words :
        p_data' = [p_data EXCEPT
                     !.data.transcription[Len(Segments)].words = Append(@, w)]
    /\ UNCHANGED <<p_result, p_phase, batchVars, jobs, dec, gui>>

\* _parse_whisper_output on the transcript: the debug artifact of lines
\* 304-305 is written, or writing it fails
PParse ==
    /\ p_phase = "build"
    /\ \E debug_ok \in BOOLEAN :
        /\ (p_data.json = "invalid" \/ Len(ExtractCaptions(p_data.data)) > 0) => debug_ok
        /\ p_result' = ParseResult(p_data, debug_ok)
    /\ p_phase' = "parsed"
    /\ UNCHANGED <<p_data, batchVars, jobs, dec, gui>>

PInit ==
    /\ p_data \in RawStarts
    /\ p_result = NoResult
    /\ p_phase = "build"
    /\ jobs = <<>>
    /\ dec = NoDecode
    /\ gui = NoWindow
    /\ audio_paths = <<>>
    /\ sys_attrs = {}
    /\ model_exists = TRUE
    /\ exe_exists = {}
    /\ pc = "off"
    /\ idx = 0
    /\ whisper_exe = NoPath
    /\ successful_files = <<>>
    /\ failed_files = <<>>
    /\ captions = <<>>
    /\ error = NoError
    /\ events = <<>>
    /\ finished = <<>>
    /\ tmp_wav = {}
    /\ raw_json = [s \in Stems |-> NoFile]
    /\ debug_json = {}
    /\ out_file = [p \in OutputPaths |-> "absent"]
    /\ trace = <<>>

PNext == PAddSegment \/ PAddToken \/ PAddWord \/ PParse

ParseSpec == PInit /\ [][PNext]_vars

\* ------------------------------------------------------------------ C7
Parsed == p_phase = "parsed" /\ p_data.json = "object"

\* C7: parsing never returns an empty caption list: a valid transcript from
\* which zero captions are extracted makes parsing fail, with an error that
\* carries the top-level keys of the decoded structure.
C7_EmptyResultIsAnError ==
    Parsed =>
        /\ p_result.error = NoError => p_result.captions # <<>>
        /\ ExtractCaptions(p_data.data) = <<>> =>
            /\ p_result.error = "no_captions"
            /\ p_result.keys = DOMAIN p_data.data

\* ------------------------------------------------------------------ C10
AllTokenTier == \A i \in 1..Len(Segments) : "tokens" \in DOMAIN Segments[i]

RECURSIVE AllTokens(_)
AllTokens(segs) ==
    IF segs = <<>> THEN <<>> ELSE Head(segs)["tokens"] \o AllTokens(Tail(segs))

TextOf(tok) == IF "text" \in DOMAIN tok THEN tok["text"] ELSE <<>>

IsBlank(t) == \A i \in 1..Len(t) : t[i] = " "
IsControlForm(t) == Len(t) >= 3 /\ t[1] = "[" /\ t[2] = "_" /\ t[Len(t)] = "]"
IsContent(tok) == ~IsBlank(TextOf(tok)) /\ ~IsControlForm(TextOf(tok))

FromOf(tok) ==
    IF "offsets" \in DOMAIN tok /\ "from" \in DOMAIN tok["offsets"]
    THEN tok["offsets"]["from"] ELSE 0

\* C10: when every segment uses the token tier, there is one caption per
\* token whose text is neither blank nor of the form "[_...]", in the order
\* of those tokens in the input (so with non-decreasing startMs when the
\* engine's offsets are non-decreasing).
C10_TokenTierCountAndOrder ==
    (Parsed /\ AllTokenTier) =>
        LET content == SelectSeq(AllTokens(Segments), IsContent)
            caps == p_result.captions
        IN  /\ Len(caps) = Len(content)
            /\ \A j \in 1..Len(caps) :
                /\ caps[j].text = TextOf(content[j])
                /\ caps[j].startMs = FromOf(content[j])
            /\ (\A i, j \in 1..Len(content) :
                    i < j => FromOf(content[i]) <= FromOf(content[j]))
               => \A i, j \in 1..Len(caps) : i < j => caps[i].startMs <= caps[j].startMs

\* a control token dropped between two tokens that are kept
C10_Witness ==
    /\ Parsed
    /\ AllTokenTier
    /\ Len(AllTokens(Segments)) = 3
    /\ IsControlForm(TextOf(AllTokens(Segments)[2]))
    /\ Len(AllTokens(Segments)) > Len(p_result.captions)
    /\ Len(p_result.captions) = 2
    /\ p_result.error = NoError

\* ----------------------------------------------------------- SplitSpec
\* _parse_whisper_output applied to a transcript of one segment that carries
\* only a text and its offsets, so that the fallback of lines 275-299 runs
\* over every duration 0..MaxMs (and every reversed pair of offsets) and
\* over texts of zero to four words.
SplitTexts ==
    { <<" ">>,
      <<"a">>,
      <<" ", "a", " ", "a">>,
      <<"a", " ", " ", "a", "a", " ">>,
      <<"a", " ", "a", " ", "a">>,
      <<"a", " ", "a", " ", "a", " ", "a">>,
      <<"[", "_", "a", "]", " ", "a">> }

\* the batch worker does not run in the specifications of the parser
BatchOff ==
    /\ audio_paths = <<>>
    /\ sys_attrs = {}
    /\ model_exists = TRUE
    /\ exe_exists = {}
    /\ pc = "off"
    /\ idx = 0
    /\ whisper_exe = NoPath
    /\ successful_files = <<>>
    /\ failed_files = <<>>
    /\ captions = <<>>
    /\ error = NoError
    /\ events = <<>>
    /\ finished = <<>>
    /\ tmp_wav = {}
    /\ raw_json = [s \in Stems |-> NoFile]
    /\ debug_json = {}
    /\ out_file = [p \in OutputPaths |-> "absent"]
    /\ trace = <<>>

SInit ==
    /\ \E t \in SplitTexts, from \in 0..MaxMs, to \in 0..MaxMs :
        p_data = [json |-> "object",
                  data |-> [transcription |->
                              << [text |-> t, offsets |-> Offs(from, to)] >>]]
    /\ p_result = NoResult
    /\ p_phase = "build"
    /\ jobs = <<>>
    /\ dec = NoDecode
    /\ gui = NoWindow
    /\ BatchOff

\* the whole of _parse_whisper_output on the segment
SParse ==
    /\ p_phase = "build"
    /\ \E debug_ok \in BOOLEAN :
        /\ Len(ExtractCaptions(p_data.data)) > 0 => debug_ok
        /\ p_result' = ParseResult(p_data, debug_ok)
    /\ p_phase' = "parsed"
    /\ UNCHANGED <<p_data, batchVars, jobs, dec, gui>>

SNext == SParse

SplitSpec == SInit /\ [][SNext]_vars

\* ----------------------------------------------------------------- C11
\* the number of words of a text: the maximal runs of non-space characters
WordCount(t) ==
    Cardinality({i \in 1..Len(t) : t[i] # " " /\ (i = 1 \/ t[i - 1] = " ")})

RECURSIVE SumDurations(_)
SumDurations(caps) ==
    IF caps = <<>> THEN 0
    ELSE (Head(caps).endMs - Head(caps).startMs) + SumDurations(Tail(caps))

SegFrom == Segments[1]["offsets"]["from"]
SegDuration == Segments[1]["offsets"]["to"] - SegFrom
SegWords == WordCount(Segments[1]["text"])

\* C11: in the segment-split tier a segment of n >= 1 words and duration
\* d = end - start >= 0 yields n captions whose durations sum to at most d
\* and to at least d - (n - 1), and the first caption starts at the
\* segment's start.
C11_SplitDurationSum ==
    (p_phase = "parsed" /\ SegWords >= 1 /\ SegDuration >= 0) =>
        LET caps == p_result.captions
        IN  /\ p_result.error = NoError
            /\ Len(caps) = SegWords
            /\ SumDurations(caps) <= SegDuration
            /\ SegDuration - SumDurations(caps) <= SegWords - 1
            /\ caps[1].startMs = SegFrom

\* three words over 5 ms starting at 1: 1 ms each, 2 = n - 1 ms are lost
C11_Witness ==
    /\ p_phase = "parsed"
    /\ SegWords = 3
    /\ SegFrom = 1
    /\ SegDuration = 5
    /\ SumDurations(p_result.captions) = 3
    /\ p_result.captions[1].startMs = 1

\* ----------------------------------------------------------------- C12
Carries(seg, key) == key \in DOMAIN seg

\* the captions one segment owes, decided from that segment alone
OwnCaptions(seg) ==
    CASE Carries(seg, "tokens") -> TokenCaptions(seg["tokens"])
      [] ~Carries(seg, "tokens") /\ Carries(seg, "words") ->
            WordCaptions(seg["words"])
      [] ~Carries(seg, "tokens") /\ ~Carries(seg, "words") /\ Carries(seg, "text") ->
            SplitCaptions(seg)
      [] OTHER -> <<>>

RECURSIVE Concat(_)
Concat(seqs) == IF seqs = <<>> THEN <<>> ELSE Head(seqs) \o Concat(Tail(seqs))

OwedCaptions == Concat([i \in 1..Len(Segments) |-> OwnCaptions(Segments[i])])

\* C12: the tier is chosen for each segment on its own, with the precedence
\* tokens, then words, then text: the captions of a transcript are, segment
\* after segment, the captions of the segment's tokens when it carries
\* tokens, else of its words when it carries words, else of its split text,
\* whatever the other segments carry.
C12_TierPerSegment ==
    Parsed =>
        /\ p_result.error = NoError => p_result.captions = OwedCaptions
        /\ p_result.error # NoError => OwedCaptions = <<>>

\* a segment carrying tokens, words and text that yields its one token only,
\* followed by a text-only segment that is split in two
C12_Witness ==
    /\ Parsed
    /\ p_result.error = NoError
    /\ Len(Segments) = 2
    /\ Carries(Segments[1], "tokens") /\ Carries(Segments[1], "words")
    /\ Carries(Segments[1], "text")
    /\ Len(Segments[1]["tokens"]) = 1 /\ Len(Segments[1]["words"]) = 1
    /\ ~Carries(Segments[2], "tokens") /\ ~Carries(Segments[2], "words")
    /\ Carries(Segments[2], "text")
    /\ Len(p_result.captions) = 3
    /\ p_result.captions[1].text = Segments[1]["tokens"][1]["text"]

\* ----------------------------------------------------------------- C13
\* C13: every caption returned by parsing, whichever tier produced it, has
\* a text that is non-empty after trimming and is not an engine control
\* token "[_...]".
C13_CaptionTextIsContent ==
    (Parsed /\ p_result.error = NoError) =>
        \A j \in 1..Len(p_result.captions) :
            /\ Strip(p_result.captions[j].text) # <<>>
            /\ ~IsControlForm(p_result.captions[j].text)

\* ----------------------------------------------------------------- C14
\* C14: every caption returned by parsing, whichever tier produced it,
\* satisfies startMs >= 0 and endMs >= startMs.
C14_CaptionTimesOrdered ==
    (Parsed /\ p_result.error = NoError) =>
        \A j \in 1..Len(p_result.captions) :
            /\ p_result.captions[j].startMs >= 0
            /\ p_result.captions[j].endMs >= p_result.captions[j].startMs

\* ----------------------------------------------------------------- C15
CaptionFields == {"text", "startMs", "endMs", "timestampMs", "confidence"}

TiersUsed == {IF Carries(Segments[i], "tokens") THEN "tokens"
              ELSE IF Carries(Segments[i], "words") THEN "words"
              ELSE IF Carries(Segments[i], "text") THEN "text" ELSE "none" :
                  i \in 1..Len(Segments)}

\* C15: every caption returned by parsing has timestampMs equal to its
\* startMs, in all three tiers, and has exactly the five fields text,
\* startMs, endMs, timestampMs and confidence.
C15_TimestampIsStart ==
    (Parsed /\ p_result.error = NoError) =>
        \A j \in 1..Len(p_result.captions) :
            /\ DOMAIN p_result.captions[j] = CaptionFields
            /\ p_result.captions[j].timestampMs = p_result.captions[j].startMs

\* a transcript whose captions come from a word entry with a start above 0
\* and from a split text
C15_Witness ==
    /\ Parsed
    /\ p_result.error = NoError
    /\ TiersUsed = {"words", "text"}
    /\ \E j \in 1..Len(p_result.captions) :
        /\ p_result.captions[j].timestampMs > 0
        /\ p_result.captions[j].confidence # DefaultConfidence
    /\ \E j \in 1..Len(p_result.captions) :
        /\ p_result.captions[j].timestampMs > 0
        /\ p_result.captions[j].confidence = DefaultConfidence

\* ----------------------------------------------------------------- C16
\* the steps of the trace that start a subprocess
Subprocesses == {"ffmpeg", "whisper"}

SubprocessStarted == \E k \in 1..Len(trace) : trace[k].kind \in Subprocesses

\* C16: when the model file of the requested model does not exist, the
\* failure is raised before any subprocess is invoked: neither the audio
\* converter nor the engine is ever started, and the batch ends with the
\* model-not-found error.
C16_NoSubprocessWithoutModel ==
    ~model_exists =>
        /\ ~SubprocessStarted
        /\ pc \in {"start", "done"}
        /\ whisper_exe = NoPath
        /\ pc = "done" =>
            finished = <<[ok |-> FALSE, summary |-> "model_not_found"]>>

\* the model is missing although an engine executable exists
C16_Witness ==
    /\ ~model_exists
    /\ exe_exists # {}
    /\ pc = "done"
    /\ Len(finished) = 1
    /\ trace = <<>>

\* ----------------------------------------------------------------- C17
\* the three candidates in the order of the claim
CandidateOrder == <<InModelsDir, InWhisperCpp, Bundled>>

ExistingCandidates == {k \in 1..3 : CandidateOrder[k] \in exe_exists}

FirstExisting ==
    CandidateOrder[CHOOSE k \in ExistingCandidates :
                        \A m \in ExistingCandidates : k <= m]

ConstructionAttempted == pc # "start"

\* C17: discovery returns the first existing candidate in the order
\* (a) models-dir/main.exe, (b) models-dir/whisper.cpp/main.exe, (c) the
\* bundled models/main.exe; when none exists the construction of the engine
\* fails, so no step of a transcription is ever taken with an unresolved
\* executable path.
C17_DiscoveryOrder ==
    /\ (ConstructionAttempted /\ model_exists /\ ExistingCandidates # {}) =>
            whisper_exe = FirstExisting
    /\ (ConstructionAttempted /\ ExistingCandidates = {}) =>
            /\ whisper_exe = NoPath
            /\ pc = "done"
            /\ Len(finished) = 1 /\ ~finished[1].ok
    /\ (trace # <<>> \/ pc \notin {"start", "done"}) => whisper_exe # NoPath

\* main.exe is only in the whisper.cpp subdirectory, and the engine was run
C17_Witness ==
    /\ InModelsDir \notin exe_exists
    /\ InWhisperCpp \in exe_exists
    /\ whisper_exe = InWhisperCpp
    /\ \E k \in 1..Len(trace) : trace[k].kind = "whisper"

\* ----------------------------------------------------------------- C20
EngineWasRun == \E k \in 1..Len(trace) : trace[k].kind = "whisper"

\* C20: the engine subprocess always runs with its working directory equal
\* to the directory that contains the located executable, wherever
\* discovery found it.
C20_CwdIsExecutableDir ==
    EngineWasRun => EngineCwd = Parent(whisper_exe)

\* ----------------------------------------------------------------- C18
\* a request is in flight from the moment it is taken to the moment its
\* outcome is recorded
InFlight == pc \notin {"off", "start", "loop", "done"}

NumRecorded == Len(successful_files) + Len(failed_files)

EngineStartedFor(i) ==
    \E k \in 1..Len(trace) : trace[k].kind = "whisper" /\ trace[k].idx = i

\* the removal of request i's WAV was attempted before step k
CleanupRanBefore(i, k) ==
    \E m \in 1..(k - 1) : trace[m].kind = "rm_wav" /\ trace[m].idx = i

\* a step after which the WAV at the path of its request may remain
LeavesWav(st) ==
    \/ st.kind = "rm_wav" /\ st.res = "failed"
    \/ st.kind = "ffmpeg" /\ st.res = "nonzero_wrote"

\* C18 (as amended): within a batch at most one request is in flight: the
\* steps of request i+1 all come after the steps of request i, and when the
\* converter or the engine of request i+1 is started the engine of request i
\* has exited, the removal of its temporary WAV has been attempted if its
\* engine was started, and its outcome has been recorded. A WAV of an
\* earlier request remains only when its removal failed or its conversion
\* failed after writing it.
C18_OneJobInFlight ==
    /\ \A p \in 1..(Len(trace) - 1) : trace[p].idx <= trace[p + 1].idx
    /\ InFlight => NumRecorded = idx - 1
    /\ pc \in {"loop", "done"} /\ EngineConstructed => NumRecorded = idx
    /\ \A k \in 1..Len(trace) :
        trace[k].kind \in Subprocesses =>
            \A i \in 1..(trace[k].idx - 1) :
                EngineStartedFor(i) => CleanupRanBefore(i, k)
    /\ pc \in {"loop", "convert"} =>
        \A w \in tmp_wav :
            \E k \in 1..Len(trace) :
                /\ WavPath(audio_paths[trace[k].idx]) = w
                /\ LeavesWav(trace[k])

\* C18 as stated: when request i+1 is about to start, the temporary WAV of
\* every earlier request has been cleaned up.
C18_Original ==
    pc = "convert" =>
        \A i \in 1..(idx - 1) : WavPath(audio_paths[i]) \notin tmp_wav

\* the engine of the second request is about to start after the first
\* request failed in the engine, was cleaned up and was recorded
C18_Witness ==
    /\ pc = "whisper"
    /\ idx = 2
    /\ EngineStartedFor(1)
    /\ CleanupRanBefore(1, Len(trace))
    /\ failed_files = <<Basename(audio_paths[1])>>
    /\ tmp_wav = {WavPath(audio_paths[2])}

\* ------------------------------------------------------------ ConcSpec
\* Two calls of transcribe_audio, made by two batches that run at the same
\* time on two different input files, over the one temporary directory of
\* tempfile.gettempdir(). Each call goes through conversion, engine run,
\* parsing and the finally clause; the steps of the two calls interleave.
Job(file) == [file |-> file, pc |-> "convert", error |-> NoError]

\* json_path = Path(wav_path).with_suffix('.wav.json'): the raw output is
\* kept, like the WAV, under the name the WAV path is derived from
RawPath(audio_path) == WavPath(audio_path)

\* what a call of transcribe_audio leaves alone
workerVars == <<audio_paths, sys_attrs, model_exists, exe_exists, pc, idx,
                whisper_exe, successful_files, failed_files, captions, error,
                events, finished, out_file, trace, parseVars, dec, gui>>

JInit ==
    /\ \E i, k \in 1..Len(AudioFileList) :
        /\ i # k
        /\ jobs = <<Job(AudioFileList[i]), Job(AudioFileList[k])>>
    /\ p_data = NoFile
    /\ p_result = NoResult
    /\ p_phase = "off"
    /\ dec = NoDecode
    /\ gui = NoWindow
    /\ BatchOff

\* _convert_audio_to_wav, line 148
JConvert(j) ==
    /\ jobs[j].pc = "convert"
    /\ \E o \in ConvertOutcomes :
        /\ tmp_wav' = IF o \in {"ok", "nonzero_wrote"}
                      THEN tmp_wav \cup {WavPath(jobs[j].file)} ELSE tmp_wav
        /\ jobs' = [jobs EXCEPT
                      ![j].pc = IF o = "ok" THEN "whisper" ELSE "raised",
                      ![j].error = IF o = "ok" THEN NoError
                                   ELSE IF o = "not_found" THEN "ffmpeg_not_found"
                                   ELSE "ffmpeg_failed"]
    /\ UNCHANGED <<raw_json, debug_json, workerVars>>

\* lines 152-180: the engine reads the WAV at wav_path; it can only write a
\* transcript when that file is there
JRunWhisper(j) ==
    /\ jobs[j].pc = "whisper"
    /\ \/ /\ jobs' = [jobs EXCEPT ![j].pc = "finally",
                                  ![j].error = "whisper_failed"]
          /\ UNCHANGED raw_json
       \/ /\ WavPath(jobs[j].file) \in tmp_wav
          /\ jobs' = [jobs EXCEPT ![j].pc = "parse"]
          /\ UNCHANGED raw_json
       \/ \E raw \in EngineOutputs :
          /\ WavPath(jobs[j].file) \in tmp_wav
          /\ raw_json' = [raw_json EXCEPT ![RawPath(jobs[j].file)] = raw]
          /\ jobs' = [jobs EXCEPT ![j].pc = "parse"]
    /\ UNCHANGED <<tmp_wav, debug_json, workerVars>>

\* _parse_whisper_output, line 183
JParse(j) ==
    /\ jobs[j].pc = "parse"
    /\ LET path == RawPath(jobs[j].file)
       IN  IF raw_json[path] = NoFile
           THEN /\ jobs' = [jobs EXCEPT ![j].pc = "finally",
                                        ![j].error = "json_not_found"]
                /\ UNCHANGED <<raw_json, debug_json>>
           ELSE \E debug_ok \in BOOLEAN, remove_ok \in BOOLEAN :
                LET res == ParseResult(raw_json[path], debug_ok)
                IN  /\ (Len(ExtractCaptions(raw_json[path].data)) > 0
                        \/ raw_json[path].json = "invalid") => debug_ok
                    /\ ~ParseReachesCleanup(res) => remove_ok
                    /\ jobs' = [jobs EXCEPT ![j].pc = "finally",
                                            ![j].error = res.error]
                    /\ debug_json' = IF res.debug THEN debug_json \cup {path}
                                     ELSE debug_json
                    /\ raw_json' = IF ParseReachesCleanup(res) /\ remove_ok
                                   THEN [raw_json EXCEPT ![path] = NoFile]
                                   ELSE raw_json
    /\ UNCHANGED <<tmp_wav, workerVars>>

\* the finally clause of lines 187-193
JCleanupWav(j) ==
    /\ jobs[j].pc = "finally"
    /\ \E remove_ok \in BOOLEAN :
        /\ (WavPath(jobs[j].file) \notin tmp_wav) => remove_ok
        /\ tmp_wav' = IF remove_ok THEN tmp_wav \ {WavPath(jobs[j].file)}
                      ELSE tmp_wav
    /\ jobs' = [jobs EXCEPT ![j].pc = IF jobs[j].error = NoError
                                      THEN "returned" ELSE "raised"]
    /\ UNCHANGED <<raw_json, debug_json, workerVars>>

JNext ==
    \E j \in 1..Len(jobs) :
        \/ JConvert(j)
        \/ JRunWhisper(j)
        \/ JParse(j)
        \/ JCleanupWav(j)

ConcSpec == JInit /\ [][JNext]_vars

\* ----------------------------------------------------------------- C19
\* the job has produced its WAV and has not yet left transcribe_audio
HoldsArtifacts(j) == jobs[j].pc \in {"whisper", "parse", "finally"}

\* C19: two jobs that are in flight at the same time for two distinct input
\* files never have the same temporary WAV path or the same raw-output
\* path, so neither can overwrite, read or delete the other's artifacts.
C19_TempPathsDistinct ==
    \A j, k \in 1..Len(jobs) :
        (j # k /\ HoldsArtifacts(j) /\ HoldsArtifacts(k)
               /\ jobs[j].file # jobs[k].file) =>
            /\ WavPath(jobs[j].file) # WavPath(jobs[k].file)
            /\ RawPath(jobs[j].file) # RawPath(jobs[k].file)

\* ----------------------------------------------------------------- C21
\* step k of the trace directly follows a step of the same request
FollowsInRequest(k, kind) ==
    /\ k > 1
    /\ trace[k - 1].kind = kind
    /\ trace[k - 1].idx = trace[k].idx

\* C21: within one job the stages run in the order normalize, engine, parse,
\* persist, and each starts only if the one before succeeded: the engine
\* runs only right after a successful conversion, the parser only right
\* after an engine run that exited with 0, and the caption file is opened
\* only after a parse without error (and the two removals that follow it),
\* and written only after it was opened.
C21_StagesInOrder ==
    \A k \in 1..Len(trace) :
        /\ trace[k].kind = "ffmpeg" => (k = 1 \/ trace[k - 1].idx < trace[k].idx)
        /\ trace[k].kind = "whisper" =>
            FollowsInRequest(k, "ffmpeg") /\ trace[k - 1].res = "ok"
        /\ trace[k].kind = "parse" =>
            FollowsInRequest(k, "whisper") /\ trace[k - 1].res # "nonzero"
        /\ trace[k].kind = "open" =>
            /\ FollowsInRequest(k, "rm_wav")
            /\ FollowsInRequest(k - 1, "rm_json")
            /\ FollowsInRequest(k - 2, "parse")
            /\ trace[k - 3].res = NoError
        /\ trace[k].kind = "dump" =>
            FollowsInRequest(k, "open") /\ trace[k - 1].res = "ok"

\* a request that went through all four stages after an earlier request of
\* the batch stopped at the engine
C21_Witness ==
    /\ \E k \in 1..Len(trace) : trace[k] = Step("whisper", 1, "nonzero")
    /\ \E k \in 1..Len(trace) : trace[k] = Step("dump", 2, "ok")
    /\ ~ \E k \in 1..Len(trace) : trace[k].kind \in {"parse", "open"} /\ trace[k].idx = 1
    /\ pc = "loop"

\* ----------------------------------------------------------------- C23
IsFinishedEvent(e) == e.kind = "finished"

\* the positions of run; "done" is its return
RunPositions == {"start", "loop", "convert", "whisper", "parse", "finally",
                 "save", "dump", "except", "done"}

\* C23: however a batch ends (all requests processed, or the engine could
\* not be constructed) run returns after exactly one finished signal, which
\* is the last event of the batch; before that no finished signal has been
\* emitted, and every failure is handled inside run.
C23_OneFinishedAtTheEnd ==
    /\ pc \in RunPositions
    /\ pc = "done" =>
        /\ Len(finished) = 1
        /\ Len(SelectSeq(events, IsFinishedEvent)) = 1
        /\ Last(events).kind = "finished"
        /\ error = NoError
        /\ finished[1].ok => EngineConstructed /\ idx = N
    /\ pc # "done" =>
        /\ finished = <<>>
        /\ SelectSeq(events, IsFinishedEvent) = <<>>

\* the batch that ends because no engine executable was found
C23_Witness ==
    /\ pc = "done"
    /\ model_exists
    /\ ~EngineConstructed
    /\ finished = <<[ok |-> FALSE, summary |-> "exe_not_found"]>>
    /\ Last(events).kind = "finished"
    /\ trace = <<>>

\* ----------------------------------------------------------------- C24
\* between two requests, or after the last one
AtRequestBoundary == pc \in {"loop", "done"} /\ EngineConstructed

Range(s) == {s[k] : k \in 1..Len(s)}

NameOf(i) == Basename(audio_paths[i])
InSuccessList(i) == NameOf(i) \in Range(successful_files)
InFailureList(i) == NameOf(i) \in Range(failed_files)

HasStep(kind, i, res) == \E k \in 1..Len(trace) : trace[k] = Step(kind, i, res)

SaveFailed(i) == HasStep("open", i, "failed") \/ HasStep("dump", i, "failed")

Recorded(i) == i < idx \/ (i = idx /\ pc \in {"loop", "done"})

\* C25: a file's name is in the success list, and its file_completed event
\* has been emitted, only once its caption file has been written to the end;
\* a failure while opening or writing the caption file puts the file in the
\* failure list and emits no file_completed event for it.
C25_SuccessOnlyAfterWrite ==
    /\ \A i \in 1..idx :
        /\ (HasEvent("file_completed", i) \/ InSuccessList(i)) =>
            HasStep("dump", i, "ok")
        /\ SaveFailed(i) =>
            /\ ~HasEvent("file_completed", i)
            /\ ~InSuccessList(i)
            /\ Recorded(i) => InFailureList(i)
    /\ (pc = "loop" /\ trace # <<>> /\ Last(trace) = Step("dump", idx, "ok")) =>
        /\ out_file[OutputPath(Cur)] = "full"
        /\ Last(events) = Ev("file_completed", idx, NameOf(idx), "")
        /\ Last(successful_files) = NameOf(idx)

\* the first file was saved, the writing of the second one failed
C25_Witness ==
    /\ pc = "done"
    /\ HasStep("dump", 1, "ok")
    /\ HasStep("dump", 2, "failed")
    /\ HasEvent("file_completed", 1)
    /\ ~HasEvent("file_completed", 2)
    /\ successful_files = <<NameOf(1)>>
    /\ failed_files = <<NameOf(2)>>

\* ----------------------------------------------------------------- C26
\* C26: distinct requests of one batch never write to the same caption file:
\* the file saved for a request reported as successful is never opened for
\* writing by a later request of the batch.
C26_OutputFilesDistinct ==
    \A i, j \in 1..idx :
        (i < j /\ HasStep("dump", i, "ok") /\ HasStep("open", j, "ok")) =>
            OutputPath(audio_paths[i]) # OutputPath(audio_paths[j])

\* ----------------------------------------------------------------- C27
RemovalFailedAt(w) ==
    \E k \in 1..Len(trace) :
        /\ trace[k] = Step("rm_wav", trace[k].idx, "failed")
        /\ WavPath(audio_paths[trace[k].idx]) = w

\* C27: after a job has ended for any reason, including a failure of the
\* audio converter after it created its output, no temporary WAV of that job
\* remains in the temporary directory (a WAV whose removal was attempted and
\* failed is left aside here: that case is the best-effort removal of C5).
C27_NoWavAfterJob ==
    (AtRequestBoundary /\ idx >= 1) =>
        \A w \in tmp_wav : RemovalFailedAt(w)

\* ----------------------------------------------------------------- C28
\* int(i * duration_per_word), lines 286 and 289, with duration_per_word the
\* float d / n: the product is rounded, so where i * d / n is a whole number
\* (not 0) although d / n is not, the float can fall just below it and int() then
\* gives one less. Every other product is at least 1 / n away from a whole
\* number, which no rounding crosses.
IntOfProduct(i, d, n) ==
    {TruncDiv(i * d, n)} \cup
        (IF i > 0 /\ (i * d) % n = 0 /\ d % n # 0 THEN {TruncDiv(i * d, n) - 1} ELSE {})

\* the word starts the code can compute for a segment of n words
FloatWordStarts(from, d, n) ==
    {s \in [1..n -> (from - 1)..(from + d)] :
        \A k \in 1..n : s[k] - from \in IntOfProduct(k - 1, d, n)}

NoOverlap(starts, dur, n, to) ==
    /\ \A k \in 1..(n - 1) : starts[k] + dur <= starts[k + 1]
    /\ starts[n] + dur <= to

\* C28: in the segment-split tier, for a segment of duration d >= 0, the
\* captions do not overlap and stay inside the segment: each word's endMs is
\* at most the next word's startMs and the last word's endMs is at most the
\* segment's end; this holds for the captions extracted and for every start
\* the float product can round to.
C28_SplitNoOverlap ==
    (p_phase = "parsed" /\ SegWords >= 1 /\ SegDuration >= 0) =>
        LET caps == p_result.captions
            n == SegWords
            to == SegFrom + SegDuration
        IN  /\ Len(caps) = n
            /\ \A k \in 1..n : SegFrom <= caps[k].startMs
            /\ \A k \in 1..(n - 1) : caps[k].endMs <= caps[k + 1].startMs
            /\ caps[n].endMs <= to
            /\ \A s \in FloatWordStarts(SegFrom, SegDuration, n) :
                    NoOverlap(s, caps[1].endMs - caps[1].startMs, n, to)

\* four words over 6 ms: 1 ms each, the third start is a whole number that
\* the float product may miss
C28_Witness ==
    /\ p_phase = "parsed"
    /\ SegWords = 4
    /\ SegDuration = 6
    /\ Cardinality(FloatWordStarts(SegFrom, SegDuration, 4)) = 2
    /\ p_result.captions[2].endMs = 2 + SegFrom
    /\ p_result.captions[3].startMs = 3 + SegFrom
    /\ p_result.captions[4].endMs < SegFrom + SegDuration

\* ============================================================ DecodeSpec
\* The raw output as read in binary mode (lines 215-216), in units: "a" a
\* well-formed UTF-8 sequence, "bom" the three bytes EF BB BF, "bad" a byte
\* that no UTF-8 sequence contains.
ByteUnits == {"a", "bom", "bad"}

RawContents == UNION {[1..n -> ByteUnits] : n \in 0..MaxBytes}

\* the decoded character of a unit: EF BB BF is the encoding of U+FEFF
CharOf(u) == IF u = "bom" THEN "feff" ELSE u

Undecodable(b) == \E k \in 1..Len(b) : b[k] = "bad"

\* bytes.decode('utf-8'): raises UnicodeDecodeError on an undecodable byte
DecodeUtf8(b) ==
    IF Undecodable(b)
    THEN [ok |-> FALSE, text |-> <<>>]
    ELSE [ok |-> TRUE, text |-> [k \in 1..Len(b) |-> CharOf(b[k])]]

\* bytes.decode('utf-8-sig'): a leading byte-order mark is dropped, the rest
\* is decoded as strict UTF-8
DecodeUtf8Sig(b) ==
    IF b # <<>> /\ b[1] = "bom" THEN DecodeUtf8(Tail(b)) ELSE DecodeUtf8(b)

\* mutant: the last resort decodes strictly as well
DecodeUtf8ReplaceStrict(b) == DecodeUtf8(b)

\* bytes.decode('utf-8', errors='replace'): U+FFFD for an undecodable byte
DecodeUtf8Replace(b) ==
    [ok |-> TRUE,
     text |-> [k \in 1..Len(b) |-> IF b[k] = "bad" THEN "fffd" ELSE CharOf(b[k])]]

Ladder == <<"utf-8", "utf-8-sig", "replace">>

DecodeBy(codec, b) ==
    CASE codec = "utf-8" -> DecodeUtf8(b)
      [] codec = "utf-8-sig" -> DecodeUtf8Sig(b)
      [] codec = "replace" -> DecodeUtf8Replace(b)

decodeOther == <<batchVars, parseVars, jobs, gui>>

\* line 220
DecodeStrict ==
    /\ dec.pc = "utf-8"
    /\ LET r == DecodeUtf8(dec.raw)
       IN  dec' = [dec EXCEPT !.tried = Append(@, "utf-8"),
                              !.text = r.text,
                              !.pc = IF r.ok THEN "loads" ELSE "utf-8-sig"]
    /\ UNCHANGED decodeOther

\* lines 221-224
DecodeSig ==
    /\ dec.pc = "utf-8-sig"
    /\ LET r == DecodeUtf8Sig(dec.raw)
       IN  dec' = [dec EXCEPT !.tried = Append(@, "utf-8-sig"),
                              !.text = r.text,
                              !.pc = IF r.ok THEN "loads" ELSE "replace"]
    /\ UNCHANGED decodeOther

\* lines 225-227; an exception here would leave by line 325
DecodeReplace ==
    /\ dec.pc = "replace"
    /\ LET r == DecodeUtf8Replace(dec.raw)
       IN  dec' = [dec EXCEPT !.tried = Append(@, "replace"),
                              !.text = r.text,
                              !.pc = IF r.ok THEN "loads" ELSE "failed",
                              !.error = IF r.ok THEN @ ELSE "UnicodeDecodeError"]
    /\ UNCHANGED decodeOther

\* json.loads, line 229: a text that begins with U+FEFF is rejected, as is
\* a text that is no JSON document; JSONDecodeError leaves by line 323
JsonLoads ==
    /\ dec.pc = "loads"
    /\ LET accepted == dec.wellformed /\ ~(dec.text # <<>> /\ dec.text[1] = "feff")
       IN  dec' = [dec EXCEPT !.pc = IF accepted THEN "loaded" ELSE "failed",
                              !.error = IF accepted THEN @ ELSE "JSONDecodeError"]
    /\ UNCHANGED decodeOther

\* the raw output has been read; wellformed tells whether its characters,
\* U+FFFD standing for each undecodable byte, form a JSON document, which
\* has at least one well-formed sequence
DInit ==
    /\ dec \in [pc : {"utf-8"}, raw : RawContents, wellformed : BOOLEAN,
                text : {<<>>}, tried : {<<>>}, error : {NoError}]
    /\ dec.wellformed => \E k \in 1..Len(dec.raw) : dec.raw[k] = "a"
    /\ gui = NoWindow
    /\ jobs = <<>>
    /\ p_data = NoFile
    /\ p_result = NoResult
    /\ p_phase = "off"
    /\ BatchOff

DNext == DecodeStrict \/ DecodeSig \/ DecodeReplace \/ JsonLoads

DecodeSpec == DInit /\ [][DNext]_vars

\* ----------------------------------------------------------------- C22
Decoded == dec.pc \in {"loads", "loaded"} \/ (dec.pc = "failed" /\ dec.error = "JSONDecodeError")

\* C22: decoding of the raw output never fails: for any byte content the
\* ladder strict UTF-8, UTF-8 with byte-order mark, UTF-8 with substitution
\* yields text (no UnicodeDecodeError leaves it, and the text has a character
\* for every unit of the content), so a document that is well formed but
\* for undecodable bytes is parsed; each later decoding is attempted only
\* after every earlier one failed on the same bytes.
C22_DecodingNeverFails ==
    (dec.pc # "off") =>
        /\ dec.error # "UnicodeDecodeError"
        /\ dec.pc = "failed" => dec.error = "JSONDecodeError"
        /\ Len(dec.tried) <= Len(Ladder)
        /\ \A k \in 1..Len(dec.tried) :
              /\ dec.tried[k] = Ladder[k]
              /\ \A e \in 1..(k - 1) : ~DecodeBy(Ladder[e], dec.raw).ok
        /\ Decoded =>
              /\ dec.tried # <<>>
              /\ DecodeBy(Last(dec.tried), dec.raw).ok
              /\ dec.text = DecodeBy(Last(dec.tried), dec.raw).text
              /\ Len(dec.text) = Len(dec.raw)
        /\ (dec.pc = "failed" /\ dec.wellformed) =>
              (dec.raw # <<>> /\ dec.raw[1] = "bom")

\* undecodable bytes after a well-formed start: all three decodings were
\* tried, the text carries U+FFFD and was parsed
C22_Witness ==
    /\ dec.pc = "loaded"
    /\ dec.tried = Ladder
    /\ Len(dec.raw) = 3
    /\ dec.raw[1] = "a"
    /\ dec.text = <<"a", "fffd", "a">>

\* =============================================================== AppSpec
\* VoxaCaptionsApp: the four controls, the selection, the modal dialog that
\* is open, and the worker thread it started. started counts the worker
\* threads started, seen the finished signals of the current one that were
\* handled; overlap records a thread started while the previous one was
\* running or its finished signal was not handled yet.
Selections == {b \in Batches : Len(b) = 1}

\* __init__ and init_ui, lines 105-113 and 293-370: nothing selected, the
\* generate button disabled (line 353)
WindowShown ==
    [pc |-> "idle", browse |-> TRUE, generate |-> FALSE, model |-> TRUE,
     language |-> TRUE, audio_paths |-> <<>>, started |-> 0, seen |-> 0,
     overlap |-> FALSE]

WorkerRunning == pc \notin {"off", "done"}

SignalPending == Len(finished) > gui.seen

workerFiles == <<sys_attrs, model_exists, exe_exists, tmp_wav, raw_json,
                 debug_json, out_file>>

\* browse_audio_file, lines 402-424; a cancelled dialog changes nothing
Browse ==
    /\ gui.pc = "idle"
    /\ gui.browse
    /\ \E file_paths \in Selections :
          gui' = [gui EXCEPT !.audio_paths = file_paths, !.generate = TRUE]
    /\ UNCHANGED <<batchVars, parseVars, jobs, dec>>

\* TranscriptionThread(...) and start(), lines 485-492
StartThread ==
    /\ audio_paths' = gui.audio_paths
    /\ pc' = "start"
    /\ idx' = 0
    /\ whisper_exe' = NoPath
    /\ successful_files' = <<>>
    /\ failed_files' = <<>>
    /\ captions' = <<>>
    /\ error' = NoError
    /\ events' = <<>>
    /\ finished' = <<>>
    /\ trace' = <<>>
    /\ UNCHANGED workerFiles

\* mutant: a handler that leaves the generate button enabled
GenerateCaptionsLeavesButton ==
    /\ gui.pc = "idle"
    /\ gui.generate
    /\ gui.started < MaxBatches
    /\ IF gui.audio_paths = <<>> \/ ~model_exists
       THEN /\ gui' = [gui EXCEPT !.pc = "dialog"]
            /\ UNCHANGED batchVars
       ELSE /\ gui' = [gui EXCEPT !.browse = FALSE,
                                  !.model = FALSE,
                                  !.language = FALSE,
                                  !.started = @ + 1,
                                  !.seen = 0,
                                  !.overlap = @ \/ WorkerRunning \/ SignalPending]
            /\ StartThread
    /\ UNCHANGED <<parseVars, jobs, dec>>

\* generate_captions, lines 436-492: without a selection (line 438) or
\* without the model file (line 448) a dialog is shown and nothing starts;
\* otherwise the controls are disabled and the worker is started
GenerateCaptions ==
    /\ gui.pc = "idle"
    /\ gui.generate
    /\ gui.started < MaxBatches
    /\ IF gui.audio_paths = <<>> \/ ~model_exists
       THEN /\ gui' = [gui EXCEPT !.pc = "dialog"]
            /\ UNCHANGED batchVars
       ELSE /\ gui' = [gui EXCEPT !.browse = FALSE,
                                  !.generate = FALSE,
                                  !.model = FALSE,
                                  !.language = FALSE,
                                  !.started = @ + 1,
                                  !.seen = 0,
                                  !.overlap = @ \/ WorkerRunning \/ SignalPending]
            /\ StartThread
    /\ UNCHANGED <<parseVars, jobs, dec>>

\* on_transcription_finished, lines 494-516, run by the event loop for a
\* finished signal of the worker: the controls are enabled again and a
\* message box is shown
OnTranscriptionFinished ==
    /\ SignalPending
    /\ gui' = [gui EXCEPT !.browse = TRUE,
                          !.generate = TRUE,
                          !.model = TRUE,
                          !.language = TRUE,
                          !.seen = @ + 1,
                          !.pc = "dialog"]
    /\ UNCHANGED <<batchVars, parseVars, jobs, dec>>

\* the user closes the message box
DismissDialog ==
    /\ gui.pc = "dialog"
    /\ gui' = [gui EXCEPT !.pc = "idle"]
    /\ UNCHANGED <<batchVars, parseVars, jobs, dec>>

\* the window is shown, run from the sources; no worker exists yet
AInit ==
    /\ gui = WindowShown
    /\ sys_attrs = {}
    /\ model_exists \in BOOLEAN
    /\ exe_exists \in {{}, ExePaths}
    /\ audio_paths = <<>>
    /\ pc = "off"
    /\ idx = 0
    /\ whisper_exe = NoPath
    /\ successful_files = <<>>
    /\ failed_files = <<>>
    /\ captions = <<>>
    /\ error = NoError
    /\ events = <<>>
    /\ finished = <<>>
    /\ tmp_wav = {}
    /\ raw_json = [s \in Stems |-> NoFile]
    /\ debug_json = {}
    /\ out_file = [p \in OutputPaths |-> "absent"]
    /\ trace = <<>>
    /\ p_data = NoFile
    /\ p_result = NoResult
    /\ p_phase = "off"
    /\ jobs = <<>>
    /\ dec = NoDecode

ANext ==
    \/ Browse
    \/ GenerateCaptions
    \/ OnTranscriptionFinished
    \/ DismissDialog
    \/ Next

AppSpec == AInit /\ [][ANext]_vars

\* ----------------------------------------------------------------- C29
ControlsDisabled ==
    ~gui.browse /\ ~gui.generate /\ ~gui.model /\ ~gui.language

ControlsEnabled ==
    gui.browse /\ gui.generate /\ gui.model /\ gui.language

\* a batch was started and its finished signal has not been handled
BatchInProgress == gui.started >= 1 /\ gui.seen = 0

\* C29: at most one batch runs at a time: from the start of a batch until
\* its finished signal has been handled the generate, browse, model and
\* language controls are disabled and no worker is started over another;
\* every ended batch, the one whose engine could not be constructed
\* included, has emitted its finished signal, and once that is handled the
\* controls are enabled again.
C29_OneBatchAtATime ==
    (gui.pc # "off") =>
        /\ ~gui.overlap
        /\ WorkerRunning => BatchInProgress
        /\ BatchInProgress => ControlsDisabled
        /\ (gui.started >= 1 /\ pc = "done") => Len(finished) = 1
        /\ gui.seen <= Len(finished)
        /\ (gui.started >= 1 /\ gui.seen = 1) => (pc = "done" /\ ControlsEnabled)

\* a batch whose engine could not be constructed has ended and been handled,
\* and the controls are enabled again
C29_Witness ==
    /\ gui.pc # "off"
    /\ gui.started = 1
    /\ gui.seen = 1
    /\ pc = "done"
    /\ ~EngineConstructed
    /\ ControlsEnabled

====
